---- MODULE Spec2Model ----
(***************************************************************************)
(* State-machine model of ExperienceController                             *)
(* (src/Experience_Page/Experience.js): the parallax scroll throttle, the  *)
(* booking form (field validation, error annotations, simulated            *)
(* submission), the newsletter form, the notification surface, the         *)
(* initialization with its widget registry, and the dropdown click         *)
(* listener.                                                               *)
(*                                                                         *)
(* Strings are sequences of one-character strings, so that trim() and the  *)
(* regular expressions of the source are computed, not assumed.            *)
(* Timers are modelled as pending callbacks; timers of equal delay fire in *)
(* the order they were set, and a notification's 100ms timer fires before  *)
(* its own 5s timer.                                                       *)
(***************************************************************************)
EXTENDS Integers, Sequences, FiniteSets, TLC

(* ------------------------------ bounds --------------------------------- *)

\* Largest vertical scroll offset (px) the environment scrolls to.
MaxScroll == 6
\* Most notification elements that still exist (in the page or with a timer).
MaxNotifs == 2
\* Most close-button clicks on one notification while its removal is pending.
MaxCloseClicks == 1
\* Most simulated booking submissions pending at once.
MaxPending == 2

\* Characters of a phone value the user types freely; longer values go on
\* with digits.
MaxPhoneFree == 3
\* Longest phone value.
MaxPhoneLen == 19
\* Longest email value.
MaxEmailLen == 6

\* Day number of "now" (new Date() at line 217).
Today == 1

(* ------------------------------ strings -------------------------------- *)

Digits == <<"0", "1", "2", "3", "4", "5", "6", "7", "8", "9">>

IsDigit(c) == \E i \in 1..10 : Digits[i] = c

DigitVal(c) == CHOOSE n \in 0..9 : Digits[n + 1] = c

\* \s of the regular expressions, and what String.prototype.trim strips.
IsSpace(c) == c \in {" ", "\t"}

RECURSIVE TrimLeft(_)
TrimLeft(s) ==
    IF s # <<>> /\ IsSpace(Head(s)) THEN TrimLeft(Tail(s)) ELSE s

RECURSIVE TrimRight(_)
TrimRight(s) ==
    IF s # <<>> /\ IsSpace(s[Len(s)])
    THEN TrimRight(SubSeq(s, 1, Len(s) - 1))
    ELSE s

\* value.trim()
Trim(s) == TrimRight(TrimLeft(s))

\* [^\s@]+ : a non-empty run without whitespace or '@'
IsLocalRun(s) ==
    /\ s # <<>>
    /\ \A i \in 1..Len(s) : ~IsSpace(s[i]) /\ s[i] # "@"

\* an email test that asks for no '.' part after the '@'
EmailRegexTestNoTld(s) ==
    \E i \in 1..Len(s) :
        /\ s[i] = "@"
        /\ IsLocalRun(SubSeq(s, 1, i - 1))
        /\ IsLocalRun(SubSeq(s, i + 1, Len(s)))

\* /^[^\s@]+@[^\s@]+\.[^\s@]+$/.test(s)
EmailRegexTest(s) ==
    \E i \in 1..Len(s) : \E j \in 1..Len(s) :
        /\ i < j
        /\ s[i] = "@"
        /\ s[j] = "."
        /\ IsLocalRun(SubSeq(s, 1, i - 1))
        /\ IsLocalRun(SubSeq(s, i + 1, j - 1))
        /\ IsLocalRun(SubSeq(s, j + 1, Len(s)))

\* value.replace(/[\s\-\(\)]/g, '')
RECURSIVE StripPhone(_)
StripPhone(s) ==
    IF s = <<>> THEN <<>>
    ELSE IF IsSpace(Head(s)) \/ Head(s) \in {"-", "(", ")"}
         THEN StripPhone(Tail(s))
         ELSE <<Head(s)>> \o StripPhone(Tail(s))

\* a phone test without the limit on the number of digits
PhoneRegexTestNoLimit(s) ==
    LET d == IF s # <<>> /\ Head(s) = "+" THEN Tail(s) ELSE s
    IN  /\ d # <<>>
        /\ IsDigit(d[1]) /\ d[1] # "0"
        /\ \A i \in 2..Len(d) : IsDigit(d[i])

\* /^[\+]?[1-9][\d]{0,15}$/.test(s)
PhoneRegexTest(s) ==
    LET d == IF s # <<>> /\ Head(s) = "+" THEN Tail(s) ELSE s
    IN  /\ d # <<>>
        /\ IsDigit(d[1]) /\ d[1] # "0"
        /\ Len(d) - 1 <= 15
        /\ \A i \in 2..Len(d) : IsDigit(d[i])

\* new Date(value) for a datetime-local value: the instant, in days.
\* A value is the one-character day number (time of day 00:00).
DateOf(s) == DigitVal(s[1])

\* today.setHours(0, 0, 0, 0)
StartOfToday == Today

(* ------------------------- the page (inputs) --------------------------- *)

\* Elements matching '.experience-parallax__image'.
Images == {"img1", "img2"}

\* The inputs of the booking form, in document order.
FieldOrder == <<"name", "checkin", "checkout">>

Fields == {FieldOrder[i] : i \in 1..Len(FieldOrder)}

\* field.type
FieldType(f) == IF f = "name" THEN "text" ELSE "datetime-local"

\* field.hasAttribute('required')
IsRequired(f) == TRUE

\* Parent elements of the inputs.
Containers == {"c1", "c2", "c3"}

\* Every input in a container of its own.
OwnLayout == [f \in Fields |-> IF f = "name" THEN "c1"
                               ELSE IF f = "checkin" THEN "c2" ELSE "c3"]

\* Check-in and check-out side by side in one container.
PairLayout == [f \in Fields |-> IF f = "name" THEN "c1" ELSE "c2"]

Layouts == {OwnLayout, PairLayout}

\* The '.modal' and '.dropdown-toggle' elements a page can hold, in document
\* order.  d2 and d3 are toggles without an id that carry the same classes;
\* an element stands between d3 and its menu.
ElementOrder == <<"m1", "m2", "d1", "d2", "d3">>

Elements == {ElementOrder[i] : i \in 1..Len(ElementOrder)}

ModalElements == {"m1", "m2"}

ToggleElements == Elements \ ModalElements

\* element.id, "" when the element has none
IdOf(e) ==
    CASE e = "m1" -> "bookingModal"
      [] e = "m2" -> "galleryModal"
      [] e = "d1" -> "languageDropdown"
      [] OTHER -> ""

\* element.className
ClassNameOf(e) ==
    IF e \in ModalElements THEN "modal fade"
    ELSE IF e = "d1" THEN "btn dropdown-toggle"
    ELSE "nav-link dropdown-toggle"

\* menu.previousElementSibling of the menu a toggle opens: the toggle
\* itself when the menu follows it directly, another element otherwise.
PreviousElementSibling(d) == IF d = "d3" THEN "divider" ELSE d

\* Where a click can land: inside a toggle, inside its menu, or elsewhere.
ClickTargets ==
    {<<"page", "body">>} \cup {<<"trigger", d>> : d \in ToggleElements}
             \cup {<<"menu", d>> : d \in ToggleElements}

\* Characters the user types into a tel input.
PhoneAlphabet == {"+", "0", "1", " ", "-", "(", ")", "a"}

\* Characters the user types into an email input.
EmailAlphabet == {"a", "@", ".", " "}

\* The datetime-local values the user picks: yesterday, today, tomorrow.
DayValues == {<<Digits[d + 1]>> : d \in {Today - 1, Today, Today + 1}}

\* Values the user can give an input.
ValuesOf(f) ==
    IF FieldType(f) = "datetime-local" THEN {<<>>} \cup DayValues
    ELSE {<<>>, <<" ">>, <<"a">>}

\* Values the user can give the newsletter's email input.
NlValues == {<<>>, <<" ">>, <<"a", "@", "b">>, <<" ", "a", "@", "b", ".", "c">>}

\* The submit controls' labels in the markup.
BookingLabel == "BOOK NOW"
NewsletterLabel == "Subscribe"

PendingBookingLabel == "SUBMITTING..."
PendingNewsletterLabel == "Subscribing..."

MsgRequired == "This field is required"
MsgEmail == "Please enter a valid email address"
MsgPhone == "Please enter a valid phone number"
MsgPastDate == "Please select a future date"
MsgRange == "Check-out date must be after check-in date"
MsgBooked == "Booking request submitted successfully!"
MsgNoEmail == "Please enter your email address"
MsgSubscribed == "Thank you for subscribing to our newsletter!"

Position(f) == CHOOSE i \in 1..Len(FieldOrder) : FieldOrder[i] = f

\* The first element of S in document order, "none" when S is empty
\* (querySelector).
FirstInOrder(S) ==
    IF S = {} THEN "none"
    ELSE CHOOSE f \in S : \A g \in S : Position(f) <= Position(g)

\* The form and its submit button are inside the booking modal: the user
\* reaches them only while the modal is shown.

(* ------------------------------- state --------------------------------- *)

VARIABLES
    parentOf,        \* the markup: parent container of each booking input
    modalTracked,    \* this.modals has the key 'bookingModal'
    prefersReducedMotion,
    parallaxBound,   \* the scroll listener of bindParallaxScroll is installed
    pageYOffset,     \* window.pageYOffset
    scrollPending,   \* the browser has a scroll event to dispatch
    scrolled,        \* a scroll event has been dispatched
    ticking,         \* closure variable of bindParallaxScroll
    frameQueue,      \* number of queued requestAnimationFrame callbacks
    transform,       \* per image: style.transform
    value,           \* per booking input: its value
    invalid,         \* inputs carrying the class 'is-invalid'
    feedback,        \* per container: its '.invalid-feedback' children, in order
    btnLabel,        \* booking submit button: textContent
    btnDisabled,     \* booking submit button: disabled
    bookingTimers,   \* pending 2000ms callbacks: the originalText each captured
    modalVisible,    \* the booking modal is shown
    nlValue,         \* newsletter email input: its value
    nlLabel,         \* newsletter submit button: textContent
    nlDisabled,      \* newsletter submit button: disabled
    nlTimers,        \* pending 1500ms callbacks: the originalText each captured
    notifs,          \* notification elements that still exist, oldest first
    lastShown,       \* arguments of the latest showNotification call
    readyState,      \* document.readyState
    initLog,         \* the initialization methods that ran, in order
    elements,        \* modal and dropdown-toggle elements in the document
    discovered,      \* elements the querySelectorAll calls of init returned
    modals,          \* this.modals: <<key, element of the handle>> pairs
    dropdowns,       \* this.dropdowns: <<key, element of the handle>> pairs
    menuOpen,        \* toggles whose '.dropdown-menu' has the class 'show'
    probe,           \* a value typed into an email or tel input
    verdict          \* what the validations said of the probe

parallaxVars == <<prefersReducedMotion, parallaxBound, pageYOffset, scrollPending,
                  scrolled, ticking, frameQueue, transform>>
errorVars == <<invalid, feedback>>
buttonVars == <<btnLabel, btnDisabled, bookingTimers>>
bookingVars == <<parentOf, modalTracked, value, errorVars, buttonVars, modalVisible>>
nlVars == <<nlValue, nlLabel, nlDisabled, nlTimers>>
notifVars == <<notifs, lastShown>>

pageVars == <<readyState, initLog, elements, discovered, modals, dropdowns, menuOpen>>
probeVars == <<probe, verdict>>

vars == <<parallaxVars, bookingVars, nlVars, notifVars, pageVars, probeVars>>

NoCall == [msg |-> "", type |-> "none"]

Unstyled == [styled |-> FALSE, y |-> 0]

NoVerdict == [type |-> "none", required |-> FALSE,
              booking |-> "none", newsletter |-> "none"]

(* --------------------------- initialization ---------------------------- *)

\* What the constructor leaves before init(): two empty Maps, nothing bound.
Blank == [log |-> <<>>, modals |-> {}, dropdowns |-> {}, discovered |-> {},
          parallaxBound |-> FALSE]

\* Map.prototype.set: an entry with the same key is replaced.
MapSet(m, k, v) == {p \in m : p[1] # k} \cup {<<k, v>>}

\* The key initializeDropdowns files a handle under.
DropdownKey(e) == IF IdOf(e) # "" THEN IdOf(e) ELSE ClassNameOf(e)

\* modalElements.forEach, from the i-th element of the document on.
RECURSIVE SetModals(_, _, _)
SetModals(m, els, i) ==
    IF i > Len(ElementOrder) THEN m
    ELSE LET e == ElementOrder[i]
         IN  SetModals(IF e \in els \cap ModalElements
                       THEN MapSet(m, IdOf(e), e) ELSE m, els, i + 1)

\* dropdownElements.forEach, from the i-th element of the document on.
RECURSIVE SetDropdowns(_, _, _)
SetDropdowns(m, els, i) ==
    IF i > Len(ElementOrder) THEN m
    ELSE LET e == ElementOrder[i]
         IN  SetDropdowns(IF e \in els \cap ToggleElements
                          THEN MapSet(m, DropdownKey(e), e) ELSE m, els, i + 1)

InitializeModals(s, els) ==
    [s EXCEPT !.log = Append(@, "initializeModals"),
              !.modals = SetModals(@, els, 1),
              !.discovered = @ \cup (els \cap ModalElements)]

InitializeDropdowns(s, els) ==
    [s EXCEPT !.log = Append(@, "initializeDropdowns"),
              !.dropdowns = SetDropdowns(@, els, 1),
              !.discovered = @ \cup (els \cap ToggleElements)]

\* setupParallaxEffect that does not ask for the motion preference
SetupParallaxEffectAlways(s, reduced) ==
    [s EXCEPT !.log = Append(@, "setupParallaxEffect"),
              !.parallaxBound = (Cardinality(Images) > 0)]

\* parallax scrolling is bound when there are images and motion is allowed
SetupParallaxEffect(s, reduced) ==
    [s EXCEPT !.log = Append(@, "setupParallaxEffect"),
              !.parallaxBound = (Cardinality(Images) > 0 /\ ~reduced)]

SetupComponents(s, els, reduced) ==
    SetupParallaxEffect(InitializeDropdowns(InitializeModals(s, els), els), reduced)

BindEvents(s) ==
    [s EXCEPT !.log = @ \o <<"bindBookingFormEvents", "bindNewsletterEvents",
                              "bindCardInteractions", "bindNavigationEvents">>]

\* initialization that binds the listeners before it sets up the components
RunInitBindFirst(s, els, reduced) == SetupComponents(BindEvents(s), els, reduced)

\* The two statements init() runs, at once or in its DOMContentLoaded listener.
RunInit(s, els, reduced) == BindEvents(SetupComponents(s, els, reduced))

\* new ExperienceController(): init() runs the setup when the document is
\* not loading, and leaves it to a DOMContentLoaded listener otherwise.
Construct(ready, els, reduced) ==
    IF ready = "loading" THEN Blank ELSE RunInit(Blank, els, reduced)

\* this.modals.get('bookingModal') finds a handle
HasBookingModal(m) == \E p \in m : p[1] = "bookingModal"

\* A listener of bindEvents is attached.
IsBound(name) == \E i \in 1..Len(initLog) : initLog[i] = name

Init ==
    /\ parentOf \in Layouts
    /\ readyState \in {"loading", "complete"}
    /\ elements \in SUBSET Elements
    /\ prefersReducedMotion \in BOOLEAN
    /\ LET s == Construct(readyState, elements, prefersReducedMotion)
       IN  /\ initLog = s.log
           /\ modals = s.modals
           /\ dropdowns = s.dropdowns
           /\ discovered = s.discovered
           /\ parallaxBound = s.parallaxBound
           /\ modalTracked = HasBookingModal(s.modals)
    /\ menuOpen = {}
    /\ probe = <<>>
    /\ verdict = NoVerdict
    /\ pageYOffset = 0
    /\ scrollPending = FALSE
    /\ scrolled = FALSE
    /\ ticking = FALSE
    /\ frameQueue = 0
    /\ transform = [e \in Images |-> Unstyled]
    /\ value = [f \in Fields |-> <<>>]
    /\ invalid = {}
    /\ feedback = [c \in Containers |-> <<>>]
    /\ btnLabel = BookingLabel
    /\ btnDisabled = FALSE
    /\ bookingTimers = <<>>
    /\ modalVisible = FALSE
    /\ nlValue = <<>>
    /\ nlLabel = NewsletterLabel
    /\ nlDisabled = FALSE
    /\ nlTimers = <<>>
    /\ notifs = <<>>
    /\ lastShown = NoCall

\* The document finishes loading: the DOMContentLoaded listener of init()
\* runs, once.
DOMContentLoaded ==
    /\ readyState = "loading"
    /\ readyState' = "interactive"
    /\ LET s == RunInit([log |-> initLog, modals |-> modals, dropdowns |-> dropdowns,
                         discovered |-> discovered, parallaxBound |-> parallaxBound],
                        elements, prefersReducedMotion)
       IN  /\ initLog' = s.log
           /\ modals' = s.modals
           /\ dropdowns' = s.dropdowns
           /\ discovered' = s.discovered
           /\ parallaxBound' = s.parallaxBound
           /\ modalTracked' = HasBookingModal(s.modals)
    /\ UNCHANGED <<prefersReducedMotion, pageYOffset, scrollPending, scrolled,
                   ticking, frameQueue, transform>>
    /\ UNCHANGED <<parentOf, value, errorVars, buttonVars, modalVisible>>
    /\ UNCHANGED <<nlVars, notifVars, elements, menuOpen, probeVars>>

\* A modal or a dropdown toggle is added to the document by other code.
AddElement(e) ==
    /\ e \notin elements
    /\ elements' = elements \cup {e}
    /\ UNCHANGED <<readyState, initLog, discovered, modals, dropdowns, menuOpen>>
    /\ UNCHANGED <<parallaxVars, bookingVars, nlVars, notifVars, probeVars>>

(* ------------------------------ parallax ------------------------------- *)

\* scrolled * -0.5, in tenths of a pixel
Rate(scrolledPx) == scrolledPx * (-5)

\* updateParallax that forgets to reset the flag
UpdateParallaxKeepTicking ==
    /\ transform' = [e \in Images |-> [styled |-> TRUE, y |-> Rate(pageYOffset)]]
    /\ UNCHANGED ticking

\* updateParallax, run by the animation frame
UpdateParallax ==
    /\ transform' = [e \in Images |-> [styled |-> TRUE, y |-> Rate(pageYOffset)]]
    /\ ticking' = FALSE

\* requestParallaxUpdate without the test of the flag
RequestParallaxUpdateAlways ==
    /\ frameQueue' = frameQueue + 1
    /\ ticking' = TRUE

\* requestParallaxUpdate, the scroll listener
RequestParallaxUpdate ==
    IF ~ticking
    THEN /\ frameQueue' = frameQueue + 1
         /\ ticking' = TRUE
    ELSE UNCHANGED <<frameQueue, ticking>>

\* The user scrolls the page; the browser will dispatch a scroll event.
ScrollTo(s) ==
    /\ s # pageYOffset
    /\ pageYOffset' = s
    /\ scrollPending' = TRUE
    /\ UNCHANGED <<prefersReducedMotion, parallaxBound, scrolled, ticking,
                   frameQueue, transform>>
    /\ UNCHANGED <<bookingVars, nlVars, notifVars, pageVars, probeVars>>

\* The browser dispatches the scroll event to the window's listeners.
ScrollEvent ==
    /\ scrollPending
    /\ scrollPending' = FALSE
    /\ scrolled' = TRUE
    /\ IF parallaxBound
       THEN RequestParallaxUpdate
       ELSE UNCHANGED <<frameQueue, ticking>>
    /\ UNCHANGED <<prefersReducedMotion, parallaxBound, pageYOffset, transform>>
    /\ UNCHANGED <<bookingVars, nlVars, notifVars, pageVars, probeVars>>

\* The browser runs one queued animation-frame callback.
AnimationFrame ==
    /\ frameQueue > 0
    /\ frameQueue' = frameQueue - 1
    /\ UpdateParallax
    /\ UNCHANGED <<prefersReducedMotion, parallaxBound, pageYOffset,
                   scrollPending, scrolled>>
    /\ UNCHANGED <<bookingVars, nlVars, notifVars, pageVars, probeVars>>

NextParallax ==
    \/ \E s \in 0..MaxScroll : ScrollTo(s)
    \/ ScrollEvent
    \/ AnimationFrame

(* ---------------------------- notifications ---------------------------- *)

\* An element is a record: msg and type are the call's arguments, inPage
\* tells whether it is attached to document.body, transform is
\* style.transform, slideIn and autoHide tell whether its 100ms and 5000ms
\* timers are pending and removal counts its pending 300ms timers.  watched
\* is an observer's mark on one element, which no handler reads.

\* An element no longer in the page and with no timer left is garbage.
IsLive(n) == n.inPage \/ n.slideIn \/ n.autoHide \/ n.removal > 0

Compact(ns) == SelectSeq(ns, IsLive)

\* Room for the element a showNotification call creates.
CanShow == Len(notifs) < MaxNotifs

\* showNotification that leaves the existing elements in the page
ShowNotificationKeep(ns, message, type) ==
    Append(ns, [msg |-> message, type |-> type, inPage |-> TRUE,
                watched |-> FALSE,
                transform |-> "translateX(100%)",
                slideIn |-> TRUE, autoHide |-> TRUE, removal |-> 0])

\* showNotification(message, type): the elements that exist afterwards
ShowNotification(ns, message, type) ==
    LET removed == [i \in 1..Len(ns) |-> [ns[i] EXCEPT !.inPage = FALSE]]
        created == [msg |-> message, type |-> type, inPage |-> TRUE,
                    watched |-> FALSE,
                    transform |-> "translateX(100%)",
                    slideIn |-> TRUE, autoHide |-> TRUE, removal |-> 0]
    IN  Append(Compact(removed), created)

\* hideNotification that slides the element out and sets no timer
HideNotificationNoTimer(ns, i) ==
    [ns EXCEPT ![i].transform = "translateX(100%)"]

\* hideNotification(notification) for the element at index i
HideNotification(ns, i) ==
    [ns EXCEPT ![i].transform = "translateX(100%)",
               ![i].removal = ns[i].removal + 1]

\* The 100ms timer of showNotification fires.
NotifSlideIn(i) ==
    /\ i \in 1..Len(notifs)
    /\ notifs[i].slideIn
    /\ \A j \in 1..(i - 1) : ~notifs[j].slideIn
    /\ notifs' = Compact([notifs EXCEPT ![i].transform = "translateX(0)",
                                        ![i].slideIn = FALSE])
    /\ UNCHANGED <<lastShown, parallaxVars, bookingVars, nlVars, pageVars, probeVars>>

\* a 5000ms timer that hides whichever notification is in the page
NotifAutoHideAny(i) ==
    /\ i \in 1..Len(notifs)
    /\ notifs[i].autoHide
    /\ ~notifs[i].slideIn
    /\ \A j \in 1..(i - 1) : ~notifs[j].autoHide
    /\ LET fired == [notifs EXCEPT ![i].autoHide = FALSE]
       IN  notifs' = Compact([k \in 1..Len(fired) |->
                                IF fired[k].inPage
                                THEN [fired[k] EXCEPT !.transform = "translateX(100%)",
                                                      !.removal = @ + 1]
                                ELSE fired[k]])
    /\ UNCHANGED <<lastShown, parallaxVars, bookingVars, nlVars, pageVars, probeVars>>

\* The 5000ms timer of showNotification fires.
NotifAutoHide(i) ==
    /\ i \in 1..Len(notifs)
    /\ notifs[i].autoHide
    /\ ~notifs[i].slideIn
    /\ \A j \in 1..(i - 1) : ~notifs[j].autoHide
    /\ LET fired == [notifs EXCEPT ![i].autoHide = FALSE]
       IN  notifs' = Compact(IF notifs[i].inPage
                             THEN HideNotification(fired, i)
                             ELSE fired)
    /\ UNCHANGED <<lastShown, parallaxVars, bookingVars, nlVars, pageVars, probeVars>>

\* A 300ms timer of hideNotification fires.
NotifRemoval(i) ==
    /\ i \in 1..Len(notifs)
    /\ notifs[i].removal > 0
    /\ notifs' = Compact([notifs EXCEPT ![i].removal = notifs[i].removal - 1,
                                        ![i].inPage = FALSE])
    /\ UNCHANGED <<lastShown, parallaxVars, bookingVars, nlVars, pageVars, probeVars>>

\* The user clicks the close button of a notification in the page.
NotifClose(i) ==
    /\ i \in 1..Len(notifs)
    /\ notifs[i].inPage
    /\ notifs[i].removal < MaxCloseClicks
    /\ notifs' = HideNotification(notifs, i)
    /\ UNCHANGED <<lastShown, parallaxVars, bookingVars, nlVars, pageVars, probeVars>>

\* An observer marks the element in the page, to follow it until it is gone.
Watch(i) ==
    /\ notifs[i].inPage
    /\ \A j \in 1..Len(notifs) : ~notifs[j].watched
    /\ notifs' = [notifs EXCEPT ![i].watched = TRUE]
    /\ UNCHANGED <<lastShown, parallaxVars, bookingVars, nlVars, pageVars, probeVars>>

NextNotifTimers ==
    \/ \E i \in 1..Len(notifs) : NotifSlideIn(i)
    \/ \E i \in 1..Len(notifs) : NotifAutoHide(i)
    \/ \E i \in 1..Len(notifs) : NotifRemoval(i)

NextNotif ==
    \/ NextNotifTimers
    \/ \E i \in 1..Len(notifs) : NotifClose(i)

(* ------------------------------ newsletter ----------------------------- *)

\* The user edits the newsletter's email input.
NlInput(v) ==
    /\ v # nlValue
    /\ nlValue' = v
    /\ UNCHANGED <<nlLabel, nlDisabled, nlTimers, notifVars, parallaxVars, bookingVars, pageVars, probeVars>>

\* handleNewsletterSubmission without the test of the email's shape
NewsletterErrorNoShape(email) ==
    IF email = <<>> THEN MsgNoEmail ELSE ""

\* The first error of handleNewsletterSubmission for an email, "" when none.
NewsletterError(email) ==
    IF email = <<>> THEN MsgNoEmail
    ELSE IF ~EmailRegexTest(email) THEN MsgEmail
    ELSE ""

\* handleNewsletterSubmission(form), on the form's submit event.  The
\* browser does not submit through a disabled submit button.
NlSubmit ==
    /\ ~nlDisabled
    /\ IsBound("bindNewsletterEvents")
    /\ LET email == Trim(nlValue)
           error == NewsletterError(email)
       IN  IF error # ""
           THEN /\ CanShow
                /\ notifs' = ShowNotification(notifs, error, "error")
                /\ lastShown' = [msg |-> error, type |-> "error"]
                /\ UNCHANGED <<nlLabel, nlDisabled, nlTimers>>
           ELSE /\ nlTimers' = Append(nlTimers, nlLabel)
                /\ nlLabel' = PendingNewsletterLabel
                /\ nlDisabled' = TRUE
                /\ UNCHANGED notifVars
    /\ UNCHANGED <<nlValue, parallaxVars, bookingVars, pageVars, probeVars>>

\* The 1500ms timer of handleNewsletterSubmission fires.
NlTimerFire ==
    /\ nlTimers # <<>>
    /\ CanShow
    /\ nlLabel' = Head(nlTimers)
    /\ nlDisabled' = FALSE
    /\ nlTimers' = Tail(nlTimers)
    /\ notifs' = ShowNotification(notifs, MsgSubscribed, "success")
    /\ lastShown' = [msg |-> MsgSubscribed, type |-> "success"]
    /\ nlValue' = <<>>
    /\ UNCHANGED <<parallaxVars, bookingVars, pageVars, probeVars>>

NextNewsletter ==
    \/ \E v \in NlValues : NlInput(v)
    \/ NlSubmit
    \/ NlTimerFire

(* ----------------------------- booking form ---------------------------- *)

\* The error state of the form: the marked inputs and the annotations.
ErrorState == [invalid |-> invalid, feedback |-> feedback]

\* clearFieldError(field): unmark the field and remove the first
\* '.invalid-feedback' element found under the field's parent.
ClearFieldError(st, f) ==
    LET c == parentOf[f]
    IN  [invalid |-> st.invalid \ {f},
         feedback |-> [st.feedback EXCEPT ![c] =
                          IF st.feedback[c] = <<>> THEN <<>>
                          ELSE Tail(st.feedback[c])]]

\* showFieldError that does not clear the field's earlier error first
ShowFieldErrorNoClear(st, f, message) ==
    LET c == parentOf[f]
    IN  [invalid |-> st.invalid \cup {f},
         feedback |-> [st.feedback EXCEPT ![c] =
                          Append(st.feedback[c], [owner |-> f, msg |-> message])]]

\* showFieldError(field, message): clear, mark, append a new annotation to
\* the field's parent.  'owner' records which field the element was made for.
ShowFieldError(st, f, message) ==
    LET cleared == ClearFieldError(st, f)
        c == parentOf[f]
    IN  [invalid |-> cleared.invalid \cup {f},
         feedback |-> [cleared.feedback EXCEPT ![c] =
                          Append(cleared.feedback[c],
                                 [owner |-> f, msg |-> message])]]

\* The errorMessage validateField ends with for a field of the given kind
\* and raw value, "" when isValid stays true.  Later checks overwrite the
\* message of earlier ones.
FieldError(type, required, raw) ==
    LET v == Trim(raw)
        e1 == IF required /\ v = <<>> THEN MsgRequired ELSE ""
        e2 == IF type = "email" /\ v # <<>> /\ ~EmailRegexTest(v)
              THEN MsgEmail ELSE e1
        e3 == IF type = "tel" /\ v # <<>> /\ ~PhoneRegexTest(StripPhone(v))
              THEN MsgPhone ELSE e2
        e4 == IF type = "datetime-local" /\ v # <<>> /\ DateOf(v) < StartOfToday
              THEN MsgPastDate ELSE e3
    IN  e4

\* validateField(field): the verdict and the error state afterwards.
ValidateField(st, f) ==
    LET error == FieldError(FieldType(f), IsRequired(f), value[f])
    IN  IF error # ""
        THEN [ok |-> FALSE, st |-> ShowFieldError(st, f, error)]
        ELSE [ok |-> TRUE, st |-> ClearFieldError(st, f)]

\* An input is :first-of-type when no input precedes it under its parent.
IsFirstOfType(f) ==
    \A g \in Fields : parentOf[g] = parentOf[f] => Position(f) <= Position(g)

\* An input is :last-of-type when no input follows it under its parent.
IsLastOfType(f) ==
    \A g \in Fields : parentOf[g] = parentOf[f] => Position(g) <= Position(f)

\* form.querySelector('input[type="datetime-local"]:first-of-type')
CheckinInput ==
    FirstInOrder({f \in Fields : FieldType(f) = "datetime-local" /\ IsFirstOfType(f)})

\* form.querySelector('input[type="datetime-local"]:last-of-type')
CheckoutInput ==
    FirstInOrder({f \in Fields : FieldType(f) = "datetime-local" /\ IsLastOfType(f)})

\* requiredFields.forEach(validateField), over the first n required fields
RECURSIVE ValidateRequired(_, _)
ValidateRequired(st, n) ==
    IF n = 0 THEN [ok |-> TRUE, st |-> st]
    ELSE LET before == ValidateRequired(st, n - 1)
             f == FieldOrder[n]
         IN  IF IsRequired(f)
             THEN LET r == ValidateField(before.st, f)
                  IN  [ok |-> before.ok /\ r.ok, st |-> r.st]
             ELSE before

\* The date-range check at the end of validateBookingForm.
ValidateRange(r) ==
    IF /\ CheckinInput # "none"
       /\ CheckoutInput # "none"
       /\ value[CheckinInput] # <<>>
       /\ value[CheckoutInput] # <<>>
       /\ DateOf(value[CheckoutInput]) <= DateOf(value[CheckinInput])
    THEN [ok |-> FALSE, st |-> ShowFieldError(r.st, CheckoutInput, MsgRange)]
    ELSE r

\* validateBookingForm(form)
ValidateBookingForm(st) == ValidateRange(ValidateRequired(st, Len(FieldOrder)))

\* The user edits an input: its 'input' listener runs clearFieldError.
Input(f, v) ==
    /\ modalVisible
    /\ v # value[f]
    /\ value' = [value EXCEPT ![f] = v]
    /\ UNCHANGED <<parentOf, modalTracked, buttonVars, modalVisible>>
    /\ UNCHANGED <<parallaxVars, nlVars, notifVars, pageVars, probeVars>>
    /\ LET st == ClearFieldError(ErrorState, f)
       IN  /\ invalid' = st.invalid
           /\ feedback' = st.feedback

\* An input loses focus: its 'blur' listener runs validateField.
Blur(f) ==
    /\ modalVisible
    /\ IsBound("bindBookingFormEvents")
    /\ UNCHANGED <<parentOf, modalTracked, value, buttonVars, modalVisible>>
    /\ UNCHANGED <<parallaxVars, nlVars, notifVars, pageVars, probeVars>>
    /\ LET r == ValidateField(ErrorState, f)
       IN  /\ invalid' = r.st.invalid
           /\ feedback' = r.st.feedback

\* submitBookingForm that relabels the button and leaves it enabled
SubmitBookingFormNoDisable ==
    /\ bookingTimers' = Append(bookingTimers, btnLabel)
    /\ btnLabel' = PendingBookingLabel
    /\ UNCHANGED btnDisabled

\* submitBookingForm(formData), up to setTimeout
SubmitBookingForm ==
    /\ bookingTimers' = Append(bookingTimers, btnLabel)
    /\ btnLabel' = PendingBookingLabel
    /\ btnDisabled' = TRUE

\* handleBookingSubmission(form)
HandleBookingSubmission ==
    /\ UNCHANGED <<parentOf, modalTracked, value, modalVisible>>
    /\ UNCHANGED <<parallaxVars, nlVars, notifVars, pageVars, probeVars>>
    /\ LET r == ValidateBookingForm(ErrorState)
       IN  /\ invalid' = r.st.invalid
           /\ feedback' = r.st.feedback
           /\ IF r.ok
              THEN /\ Len(bookingTimers) < MaxPending
                   /\ SubmitBookingForm
              ELSE UNCHANGED buttonVars

\* The user clicks the submit button (a disabled button gets no click).
ButtonClick ==
    /\ modalVisible
    /\ IsBound("bindBookingFormEvents")
    /\ ~btnDisabled
    /\ HandleBookingSubmission

\* The form's submit event.
FormSubmit ==
    /\ modalVisible
    /\ IsBound("bindBookingFormEvents")
    /\ HandleBookingSubmission

\* The 2000ms timer of submitBookingForm fires.
BookingTimerFire ==
    /\ bookingTimers # <<>>
    /\ CanShow
    /\ btnLabel' = Head(bookingTimers)
    /\ btnDisabled' = FALSE
    /\ bookingTimers' = Tail(bookingTimers)
    /\ notifs' = ShowNotification(notifs, MsgBooked, "success")
    /\ lastShown' = [msg |-> MsgBooked, type |-> "success"]
    /\ modalVisible' = IF modalTracked THEN FALSE ELSE modalVisible
    /\ value' = [f \in Fields |-> <<>>]
    /\ UNCHANGED <<parentOf, modalTracked, errorVars>>
    /\ UNCHANGED <<parallaxVars, nlVars, pageVars, probeVars>>

\* The user opens the booking modal.
OpenModal ==
    /\ ~modalVisible
    /\ modalVisible' = TRUE
    /\ UNCHANGED <<parentOf, modalTracked, value, errorVars, buttonVars>>
    /\ UNCHANGED <<parallaxVars, nlVars, notifVars, pageVars, probeVars>>

NextBooking ==
    \/ \E f \in Fields : \E v \in ValuesOf(f) : Input(f, v)
    \/ \E f \in Fields : Blur(f)
    \/ ButtonClick
    \/ FormSubmit
    \/ BookingTimerFire
    \/ OpenModal

(* ----------------------- the rules on one value ------------------------ *)

\* The user types one more character into a tel input.
TypePhone(c) ==
    /\ Len(probe) < MaxPhoneLen
    /\ Len(probe) >= MaxPhoneFree => c = "1"
    /\ probe' = Append(probe, c)
    /\ verdict' = NoVerdict
    /\ UNCHANGED <<parallaxVars, bookingVars, nlVars, notifVars, pageVars>>

\* The user types one more character into an email input.
TypeEmail(c) ==
    /\ Len(probe) < MaxEmailLen
    /\ probe' = Append(probe, c)
    /\ verdict' = NoVerdict
    /\ UNCHANGED <<parallaxVars, bookingVars, nlVars, notifVars, pageVars>>

\* handleNewsletterSubmission on an email input holding raw: the message of
\* the error notification, "" when the address is accepted.
NewsletterVerdict(raw) == NewsletterError(Trim(raw))

\* validateField runs on a tel input holding the value.
ValidatePhone(required) ==
    /\ verdict' = [type |-> "tel", required |-> required,
                   booking |-> FieldError("tel", required, probe),
                   newsletter |-> "none"]
    /\ UNCHANGED probe
    /\ UNCHANGED <<parallaxVars, bookingVars, nlVars, notifVars, pageVars>>

\* validateField runs on an email input of the booking form holding the
\* value, and handleNewsletterSubmission on the newsletter's input holding it.
ValidateEmail(required) ==
    /\ verdict' = [type |-> "email", required |-> required,
                   booking |-> FieldError("email", required, probe),
                   newsletter |-> NewsletterVerdict(probe)]
    /\ UNCHANGED probe
    /\ UNCHANGED <<parallaxVars, bookingVars, nlVars, notifVars, pageVars>>

NextPhone ==
    \/ \E c \in PhoneAlphabet : TypePhone(c)
    \/ \E required \in BOOLEAN : ValidatePhone(required)

NextEmail ==
    \/ \E c \in EmailAlphabet : TypeEmail(c)
    \/ \E required \in BOOLEAN : ValidateEmail(required)

(* ------------------------------ dropdowns ------------------------------ *)

\* bootstrap.Dropdown.getInstance(element): the handle of a toggle, null
\* for any other element.
GetInstance(el) == IF el \in ToggleElements THEN el ELSE "null"

\* The test of the document click listener for the open menu of toggle d:
\* the target is neither in the menu nor in the menu's previous sibling.
IsOutside(d, target) ==
    /\ target # <<"menu", d>>
    /\ target # <<"trigger", PreviousElementSibling(d)>>

\* The widget library opens the menu of a toggle.
ShowMenu(d) ==
    /\ d \in elements \cap ToggleElements
    /\ d \notin menuOpen
    /\ menuOpen' = menuOpen \cup {d}
    /\ UNCHANGED <<readyState, initLog, elements, discovered, modals, dropdowns>>
    /\ UNCHANGED <<parallaxVars, bookingVars, nlVars, notifVars, probeVars>>

\* A click somewhere in the document: the listener of bindNavigationEvents
\* hides the open menus the click is outside of.
DocumentClick(target) ==
    /\ menuOpen' =
          IF IsBound("bindNavigationEvents")
          THEN {d \in menuOpen :
                   ~(/\ IsOutside(d, target)
                     /\ GetInstance(PreviousElementSibling(d)) # "null")}
          ELSE menuOpen
    /\ UNCHANGED <<readyState, initLog, elements, discovered, modals, dropdowns>>
    /\ UNCHANGED <<parallaxVars, bookingVars, nlVars, notifVars, probeVars>>

NextPage ==
    \/ DOMContentLoaded
    \/ \E e \in Elements : AddElement(e)
    \/ \E d \in ToggleElements : ShowMenu(d)
    \/ \E target \in ClickTargets : DocumentClick(target)

(* --------------------------- specifications ---------------------------- *)

Next ==
    \/ NextParallax \/ NextBooking \/ NextNewsletter \/ NextNotif
    \/ NextPage \/ NextPhone \/ NextEmail

Spec == Init /\ [][Next]_vars

\* The parallax throttle alone.
InitParallax ==
    Init /\ parentOf = OwnLayout /\ readyState = "complete" /\ elements = Elements

SpecParallax == InitParallax /\ [][NextParallax]_vars

\* The newsletter form and the notification surface.
InitNewsletter == InitParallax /\ prefersReducedMotion = FALSE

NextNewsletterNotif == NextNewsletter \/ NextNotif

SpecNewsletter == InitNewsletter /\ [][NextNewsletterNotif]_vars

\* The booking form and the timers of the notifications it shows.
InitBooking ==
    /\ Init /\ prefersReducedMotion = FALSE /\ readyState = "complete"
    /\ elements \in {Elements, Elements \ {"m1"}}

NextBookingNotif == NextBooking \/ NextNotifTimers

SpecBooking == InitBooking /\ [][NextBookingNotif]_vars

\* The timers of the notifications fire when they are due.
NotifFairness ==
    \A i \in 1..MaxNotifs :
        /\ WF_vars(NotifSlideIn(i))
        /\ WF_vars(NotifAutoHide(i))
        /\ WF_vars(NotifRemoval(i))

\* The notification surface under showNotification calls (from submits of
\* the empty newsletter form), close clicks and timers, with an observer of
\* one notification, where every timer that is due fires.
NextWatchedNotif == NlSubmit \/ NextNotif \/ \E i \in 1..Len(notifs) : Watch(i)

FairSpecNotif == InitNewsletter /\ [][NextWatchedNotif]_vars /\ NotifFairness

\* The page from construction on: the end of loading, elements added
\* later, dropdown menus and document clicks.
InitPage == Init /\ parentOf = OwnLayout /\ prefersReducedMotion = FALSE

SpecPage == InitPage /\ [][NextPage]_vars

\* Scrolling from construction on, with either motion preference.
InitMotion == Init /\ parentOf = OwnLayout /\ elements = Elements

NextMotion == NextParallax \/ DOMContentLoaded

SpecMotion == InitMotion /\ [][NextMotion]_vars

\* Values typed into a tel input and validated.
SpecPhone == InitNewsletter /\ [][NextPhone]_vars

\* Values typed into an email input and validated by both forms.
SpecEmail == InitNewsletter /\ [][NextEmail]_vars

(* ------------------------------- claims -------------------------------- *)

InPage == {i \in 1..Len(notifs) : notifs[i].inPage}

\* C1: the page holds at most one notification element, and the one it
\* holds carries the message and the severity of the latest
\* showNotification call.
C1_OneNotification ==
    /\ Cardinality(InPage) <= 1
    /\ \A i \in InPage :
        /\ notifs[i].msg = lastShown.msg
        /\ notifs[i].type = lastShown.type

\* A notification superseded by one with another message, its timers not
\* yet fired.
C1_Witness ==
    /\ Len(notifs) = 2
    /\ notifs[2].inPage
    /\ notifs[1].autoHide
    /\ notifs[1].msg # notifs[2].msg

HasNotifTimer(n) == n.slideIn \/ n.autoHide \/ n.removal > 0

WatchedInPage == \E i \in 1..Len(notifs) : notifs[i].watched /\ notifs[i].inPage

\* C5: every notification put in the page leaves it.  A close click, or the
\* 5s timer firing while the element is in the page, slides it out and
\* leaves a removal timer pending; a removal timer that fires takes the
\* element out of the page; an element in the page always has its 5s timer
\* or a removal timer pending, so that none is left when all timers have
\* fired; and the watched element, once in the page, is eventually out of it.
C5_EventuallyRemoved ==
    /\ [](\A i \in InPage : notifs[i].autoHide \/ notifs[i].removal > 0)
    /\ []((\A i \in 1..Len(notifs) : ~HasNotifTimer(notifs[i])) => InPage = {})
    /\ [][\A i \in 1..Len(notifs) :
            (NotifClose(i) \/ (NotifAutoHide(i) /\ notifs[i].inPage))
            => \E j \in 1..Len(notifs') :
                  /\ notifs'[j].inPage
                  /\ notifs'[j].transform = "translateX(100%)"
                  /\ notifs'[j].removal = notifs[i].removal + 1]_vars
    /\ [][\A i \in 1..Len(notifs) :
            (NotifRemoval(i) /\ notifs[i].inPage)
            => \A j \in 1..Len(notifs') : ~notifs'[j].inPage]_vars
    /\ (WatchedInPage ~> ~WatchedInPage)

\* The watched element was closed by a click and taken out of the page by
\* the removal timer, before its 5s timer: nothing superseded it.
C5_Witness ==
    /\ Len(notifs) = 1
    /\ notifs[1].watched
    /\ ~notifs[1].inPage
    /\ notifs[1].autoHide

\* C6: at most one animation-frame callback is queued, and the ticking
\* flag is true exactly while one is queued.
C6_OnePending ==
    /\ frameQueue \in {0, 1}
    /\ ticking <=> (frameQueue = 1)

\* A scroll event arrives while a callback is queued, after an earlier
\* callback has run.
C6_Witness ==
    /\ ticking
    /\ frameQueue = 1
    /\ scrollPending
    /\ \A e \in Images : transform[e].styled

\* C7: with parallax enabled, once the scroll events have been dispatched
\* and no frame callback is left, every parallax image is translated by
\* -0.5 times the scroll offset (transform.y is in tenths of a pixel).
C7_FinalOffset ==
    (parallaxBound /\ scrolled /\ ~scrollPending /\ frameQueue = 0)
    => \A e \in Images :
          /\ transform[e].styled
          /\ transform[e].y * 2 = -(pageYOffset * 10)

\* The page rests at a non-zero offset, all events dispatched and the frame run.
C7_Witness ==
    /\ parallaxBound /\ scrolled /\ ~scrollPending /\ frameQueue = 0
    /\ pageYOffset > 1
    /\ \A e \in Images : transform[e].y * 2 = -(pageYOffset * 10)

\* The email of the newsletter form is empty after trimming or lacks the
\* email shape.
NlRejected ==
    LET email == Trim(nlValue)
    IN  email = <<>> \/ ~EmailRegexTest(email)

\* C10: a newsletter submit with an empty or misshapen email shows exactly
\* one error notification and changes nothing else (control, timers, form);
\* any other submit disables the control with the pending label and sets the
\* timer, and when the timer fires the control is enabled with the label of
\* the markup, a success notification is in the page and the form is reset.
C10_Newsletter ==
    /\ [][(NlSubmit /\ NlRejected)
          => /\ UNCHANGED <<nlLabel, nlDisabled, nlTimers, nlValue>>
             /\ Cardinality({i \in 1..Len(notifs') : notifs'[i].inPage}) = 1
             /\ \A i \in 1..Len(notifs') :
                   notifs'[i].inPage => notifs'[i].type = "error"
             /\ lastShown'.type = "error"]_vars
    /\ [][(NlSubmit /\ ~NlRejected)
          => /\ nlDisabled'
             /\ nlLabel' = PendingNewsletterLabel
             /\ Len(nlTimers') = Len(nlTimers) + 1
             /\ UNCHANGED <<nlValue, notifVars>>]_vars
    /\ [][NlTimerFire
          => /\ ~nlDisabled'
             /\ nlLabel' = NewsletterLabel
             /\ nlValue' = <<>>
             /\ \E i \in 1..Len(notifs') :
                   /\ notifs'[i].inPage
                   /\ notifs'[i].type = "success"
                   /\ notifs'[i].msg = MsgSubscribed]_vars

\* After a subscription went through (its notification still exists), a
\* misshapen email was submitted and rejected.
C10_Witness ==
    /\ Len(notifs) = 2
    /\ notifs[1].msg = MsgSubscribed
    /\ notifs[2].inPage /\ notifs[2].msg = MsgEmail
    /\ ~nlDisabled /\ nlLabel = NewsletterLabel /\ nlTimers = <<>>
    /\ nlValue # <<>>

\* The annotation elements made for field f, as <<container, index>>.
NotesOf(fb, f) ==
    {p \in Containers \X (1..Cardinality(Fields)) :
        p[2] <= Len(fb[p[1]]) /\ fb[p[1]][p[2]].owner = f}

\* The error of field f under the per-field rules, "" when it passes.
RuleError(f) == FieldError(FieldType(f), IsRequired(f), value[f])

RangeBroken ==
    /\ value["checkin"] # <<>>
    /\ value["checkout"] # <<>>
    /\ DateOf(value["checkout"]) <= DateOf(value["checkin"])

\* The newest error of field f at a full-form validation, "" when none.
NewestError(f) ==
    IF f = "checkout" /\ RangeBroken THEN MsgRange ELSE RuleError(f)

\* C3: a submit of a form with a field that fails a per-field rule or the
\* check-in/check-out rule is aborted (control, timers, notifications and
\* values unchanged), and afterwards every failing field is marked and has
\* exactly one annotation, which carries its newest message.
C3_InvalidAborts ==
    [][(FormSubmit /\ \E g \in Fields : NewestError(g) # "")
       => /\ UNCHANGED <<buttonVars, notifVars, value>>
          /\ \A f \in Fields :
                NewestError(f) # ""
                => /\ f \in invalid'
                   /\ Cardinality(NotesOf(feedback', f)) = 1
                   /\ \A p \in NotesOf(feedback', f) :
                         feedback'[p[1]][p[2]].msg = NewestError(f)]_vars

\* C4: a field marked invalid has exactly one annotation element, a field
\* not marked has none.
C4_OneAnnotation ==
    \A f \in Fields :
        Cardinality(NotesOf(feedback, f)) = (IF f \in invalid THEN 1 ELSE 0)

\* A string of whitespace only, possibly empty.
IsBlank(s) == \A i \in 1..Len(s) : IsSpace(s[i])

\* C8: a blur on a field whose value fails a per-field rule leaves the field
\* marked with exactly one annotation of its own, carrying that error (the
\* required-field error when a required field is empty or blank); a blur on
\* a field whose value passes, and any edit of a field, leaves it unmarked
\* with no annotation of its own.
C8_FieldStateMachine ==
    /\ [][\A f \in Fields :
            Blur(f) =>
                IF RuleError(f) # ""
                THEN /\ f \in invalid'
                     /\ Cardinality(NotesOf(feedback', f)) = 1
                     /\ \A p \in NotesOf(feedback', f) :
                           feedback'[p[1]][p[2]].msg = RuleError(f)
                ELSE /\ f \notin invalid'
                     /\ NotesOf(feedback', f) = {}]_vars
    /\ [][\A f \in Fields :
            (Blur(f) /\ IsRequired(f) /\ IsBlank(value[f]))
            => /\ f \in invalid'
               /\ \E p \in NotesOf(feedback', f) :
                     feedback'[p[1]][p[2]].msg = MsgRequired]_vars
    /\ [][\A f \in Fields :
            Input(f, value'[f]) => (f \notin invalid' /\ NotesOf(feedback', f) = {})]_vars

\* A required field holding only whitespace is Invalid with the
\* required-field error, while another field, once Invalid, is Valid again.
C8_Witness ==
    /\ value["name"] = <<" ">>
    /\ "name" \in invalid
    /\ \E p \in NotesOf(feedback, "name") : feedback[p[1]][p[2]].msg = MsgRequired
    /\ value["checkin"] # <<>>
    /\ "checkin" \notin invalid
    /\ NotesOf(feedback, "checkin") = {}

\* The range error is on display.
RangeNotes(fb) ==
    {p \in Containers \X (1..Cardinality(Fields)) :
        p[2] <= Len(fb[p[1]]) /\ fb[p[1]][p[2]].msg = MsgRange}

\* C9: after a full-form validation the range error is shown exactly when
\* both values are present, both pass their own rules and check-out is not
\* after check-in, and it is shown on the check-out field.
C9_RangeRule ==
    [][FormSubmit
       => /\ (RangeNotes(feedback') # {})
             <=> (RangeBroken /\ RuleError("checkin") = "" /\ RuleError("checkout") = "")
          /\ \A p \in RangeNotes(feedback') :
                feedback'[p[1]][p[2]].owner = "checkout"]_vars

\* The methods of the initialization in the order of the source.
InitOrder ==
    <<"initializeModals", "initializeDropdowns", "setupParallaxEffect",
      "bindBookingFormEvents", "bindNewsletterEvents", "bindCardInteractions",
      "bindNavigationEvents">>

\* C11: the initialization has not run while the document is loading and
\* has run exactly once, each method once and in the order modals,
\* dropdowns, parallax, listeners, in every other state; once it has run it
\* never runs again.
C11_InitOnceInOrder ==
    /\ [](IF readyState = "loading" THEN initLog = <<>> ELSE initLog = InitOrder)
    /\ [][initLog # <<>> => initLog' = initLog]_vars

\* The initialization ran in the DOMContentLoaded listener, and the page
\* was used afterwards.
C11_Witness ==
    /\ readyState = "interactive"
    /\ initLog = InitOrder
    /\ menuOpen # {}

\* The elements a registry holds a handle of.
Registered == {p[2] : p \in modals \cup dropdowns}

\* C12: once the initialization has run, every element its queries found
\* has a handle in the registry, the registry holds as many handles as
\* elements were found, and no later step changes either Map.
C12_RegistryComplete ==
    /\ [](initLog # <<>>
          => /\ Registered = discovered
             /\ Cardinality(modals) + Cardinality(dropdowns) = Cardinality(discovered))
    /\ [][initLog # <<>> => (modals' = modals /\ dropdowns' = dropdowns)]_vars

\* C13: when the reduced-motion preference is set, the scroll listener is
\* never installed, no animation-frame callback is ever queued and no
\* parallax image's transform is ever set, whatever is scrolled before or
\* after the initialization.
C13_ReducedMotionSkips ==
    /\ [](prefersReducedMotion
          => /\ ~parallaxBound
             /\ frameQueue = 0
             /\ ~ticking
             /\ \A e \in Images : transform[e] = Unstyled)
    /\ [][prefersReducedMotion
          => (frameQueue' = frameQueue /\ transform' = transform)]_vars

\* With the preference set and the initialization done, the page was
\* scrolled away from the top and the scroll event dispatched.
C13_Witness ==
    /\ prefersReducedMotion
    /\ initLog # <<>>
    /\ scrolled
    /\ ~scrollPending
    /\ pageYOffset > 0

\* What is left of a phone value without its spaces, hyphens and parentheses.
Remainder(s) == SelectSeq(s, LAMBDA c : c \notin {" ", "-", "(", ")"})

\* An optional '+', then 1 to 16 digits of which the first is not zero.
IsPhoneShape(s) ==
    LET plus == IF Len(s) > 0 /\ s[1] = "+" THEN 1 ELSE 0
        n == Len(s) - plus
    IN  /\ n >= 1 /\ n <= 16
        /\ s[plus + 1] \in {"1", "2", "3", "4", "5", "6", "7", "8", "9"}
        /\ \A i \in (plus + 2)..Len(s) :
              s[i] \in {"0", "1", "2", "3", "4", "5", "6", "7", "8", "9"}

\* The value has a character that is not whitespace.
HasText(s) == \E i \in 1..Len(s) : s[i] # " "

\* C14: a phone value that is not empty after trimming passes exactly when
\* its remainder without spaces, hyphens and parentheses is an optional '+'
\* followed by 1 to 16 digits with a non-zero first digit, and fails with
\* the phone-format error otherwise; an empty or blank value of a field that
\* is not required passes.
C14_PhoneRule ==
    verdict.type = "tel"
    => IF HasText(probe)
       THEN verdict.booking = (IF IsPhoneShape(Remainder(probe)) THEN "" ELSE MsgPhone)
       ELSE ~verdict.required => verdict.booking = ""

\* A value of 16 digits with '+' and formatting characters has passed.
C14_Witness ==
    /\ verdict.type = "tel"
    /\ verdict.booking = ""
    /\ Len(probe) > Len(Remainder(probe))
    /\ Len(Remainder(probe)) = 17

\* C14 as stated: every value that is not the empty string passes exactly
\* when its remainder has the phone shape and fails with the phone-format
\* error otherwise; the empty value of a field that is not required passes.
C14_Original ==
    verdict.type = "tel"
    => IF probe # <<>>
       THEN verdict.booking = (IF IsPhoneShape(Remainder(probe)) THEN "" ELSE MsgPhone)
       ELSE ~verdict.required => verdict.booking = ""

\* The number of '@' characters of a string.
AtSigns(s) == Cardinality({i \in 1..Len(s) : s[i] = "@"})

\* local@domain.tld: no whitespace, one '@' that is not the first character,
\* and after it a '.' with at least one character on either side.
HasEmailShape(s) ==
    /\ \A i \in 1..Len(s) : s[i] # " "
    /\ AtSigns(s) = 1
    /\ \E a \in 2..Len(s) :
          /\ s[a] = "@"
          /\ \E j \in (a + 2)..(Len(s) - 1) : s[j] = "."

\* The leading and trailing spaces of a string removed.
Trimmed(s) ==
    LET kept == {i \in 1..Len(s) : s[i] # " "}
    IN  IF kept = {} THEN <<>>
        ELSE SubSeq(s, CHOOSE i \in kept : \A k \in kept : i <= k,
                       CHOOSE j \in kept : \A k \in kept : k <= j)

\* C15: for every value that is not empty after trimming, the booking form
\* accepts the value exactly when the trimmed value has the shape
\* local@domain.tld and rejects it with the email-format error otherwise,
\* and the newsletter handler accepts exactly the values the booking form
\* accepts.
C15_EmailRule ==
    (verdict.type = "email" /\ HasText(probe))
    => /\ verdict.booking = (IF HasEmailShape(Trimmed(probe)) THEN "" ELSE MsgEmail)
       /\ (verdict.booking = "") <=> (verdict.newsletter = "")

\* Both forms have accepted a value that has whitespace around the address.
C15_Witness ==
    /\ verdict.type = "email"
    /\ verdict.booking = ""
    /\ verdict.newsletter = ""
    /\ Len(Trimmed(probe)) < Len(probe)

\* C15 as stated: for every value that is not the empty string, the
\* booking form accepts it only when the value itself has the shape
\* local@domain.tld, and both forms accept the same values.
C15_Original ==
    (verdict.type = "email" /\ probe # <<>>)
    => /\ (verdict.booking = "") => HasEmailShape(probe)
       /\ (verdict.booking = "") <=> (verdict.newsletter = "")

\* C16: at a document click, with the listener bound, every open menu is
\* closed when the click is outside the menu and outside its toggle, and
\* stays open when the click is inside the menu or inside its toggle.
C16_OutsideClickCloses ==
    [][\A target \in ClickTargets :
          (IsBound("bindNavigationEvents") /\ DocumentClick(target))
          => \A d \in menuOpen :
                (d \in menuOpen')
                <=> (target = <<"menu", d>> \/ target = <<"trigger", d>>)]_vars

\* C17: the booking submit control is disabled and shows the pending label
\* exactly while a simulated submission is outstanding, and is enabled with
\* the label of the markup whenever none is.
C17_ControlTracksPending ==
    IF bookingTimers # <<>>
    THEN btnDisabled /\ btnLabel = PendingBookingLabel
    ELSE ~btnDisabled /\ btnLabel = BookingLabel

\* The notification elements in the page, with their style and timers.
Displayed(ns) == {ns[k] : k \in {j \in 1..Len(ns) : ns[j].inPage}}

\* C18: when a timer of a notification that is no longer in the page
\* fires, the notification in the page keeps its place in the page, its
\* transform and its own pending timers.
C18_TimersOwnElement ==
    [][\A i \in 1..Len(notifs) :
          (/\ ~notifs[i].inPage
           /\ NotifSlideIn(i) \/ NotifAutoHide(i) \/ NotifRemoval(i))
          => Displayed(notifs') = Displayed(notifs)]_vars

\* A superseded notification still has its 5s timer pending while the
\* later one has slid in and is on display.
C18_Witness ==
    /\ Len(notifs) = 2
    /\ ~notifs[1].inPage /\ notifs[1].autoHide /\ ~notifs[1].slideIn
    /\ notifs[2].inPage /\ notifs[2].autoHide /\ ~notifs[2].slideIn
    /\ notifs[2].transform = "translateX(0)"
    /\ notifs[2].removal = 0

\* The check-out field is marked and shows the range error.
RangeShownOnCheckout ==
    /\ "checkout" \in invalid
    /\ \E p \in NotesOf(feedback, "checkout") : feedback[p[1]][p[2]].msg = MsgRange

\* C19: while the check-out field shows the range error, a blur on the
\* check-out field (which changes no value) leaves the field marked with
\* the range error.
C19_RangeErrorStays ==
    [][(RangeShownOnCheckout /\ Blur("checkout")) => RangeShownOnCheckout']_vars

====
